---- MODULE Spec2Model ----
(***************************************************************************)
(* Model of notebooks/model_downloader_app.py: the resumable download      *)
(* engine download(), the batch orchestrator _do_batch(), the single-item  *)
(* handler _do_single() and their helpers.                                 *)
(*                                                                         *)
(* Text (URLs, header values, file names, batch lines) is a sequence of    *)
(* tokens: a token is either one of the characters the code inspects       *)
(* ("/", "\\", "?", "#", ";", "=", "*", the double quote, white space) or  *)
(* a run of other characters (".part", "f", "http:", a folder key, ...).   *)
(* File contents are sequences of byte values.                             *)
(***************************************************************************)
EXTENDS Integers, Sequences, FiniteSets, TLC

(***************************************************************************)
(* Bounds of the model                                                     *)
(***************************************************************************)
\* handler invocations (button clicks and direct calls of download) explored
MaxCalls == 1
\* largest chunk, in bytes, that iter_content hands out at once
MaxChunk == 2
\* first reading of the clock: any value of at least THROTTLE_MS
Epoch == 1000
\* clock readings are explored up to Epoch + ClockSpan
ClockSpan == 200
\* longest name, in tokens, given to _safe_filename on its own
MaxNameLen == 3
\* most lines of a batch text given to _parse_batch_lines on its own
MaxLines == 3

(***************************************************************************)
(* Text helpers (Python str methods on token sequences)                    *)
(***************************************************************************)
WS == {" "}
QUOTE == "\""
None == <<>>

RECURSIVE LStrip(_, _)
LStrip(s, cs) == IF s # <<>> /\ Head(s) \in cs THEN LStrip(Tail(s), cs) ELSE s

RECURSIVE RStrip(_, _)
RStrip(s, cs) ==
    IF s # <<>> /\ s[Len(s)] \in cs THEN RStrip(SubSeq(s, 1, Len(s) - 1), cs) ELSE s

\* str.strip(): both ends
Strip(s, cs) == RStrip(LStrip(s, cs), cs)

\* str.replace(a, b) for one-token a and b
Replace(s, a, b) == [i \in 1..Len(s) |-> IF s[i] = a THEN b ELSE s[i]]

\* index of the first / last token of s that is in cs; 0 when there is none
FirstIn(s, cs) ==
    IF \E i \in 1..Len(s) : s[i] \in cs
    THEN CHOOSE i \in 1..Len(s) : s[i] \in cs /\ \A j \in 1..(i - 1) : s[j] \notin cs
    ELSE 0

LastIn(s, cs) ==
    IF \E i \in 1..Len(s) : s[i] \in cs
    THEN CHOOSE i \in 1..Len(s) : s[i] \in cs /\ \A j \in (i + 1)..Len(s) : s[j] \notin cs
    ELSE 0

\* s.split(c)[0]
SplitFirst(s, c) ==
    IF FirstIn(s, {c}) = 0 THEN s ELSE SubSeq(s, 1, FirstIn(s, {c}) - 1)

\* s.split(c)[-1]
SplitLast(s, c) == SubSeq(s, LastIn(s, {c}) + 1, Len(s))

\* the longest run of tokens of s from index i on that are not in stop
RunFrom(s, i, stop) ==
    LET rest == SubSeq(s, i, Len(s))
        k    == FirstIn(rest, stop)
    IN  IF k = 0 THEN rest ELSE SubSeq(rest, 1, k - 1)

\* index of the first token from i on that is not white space (Len(s)+1 if none)
SkipWs(s, i) == i + Len(SubSeq(s, i, Len(s))) - Len(LStrip(SubSeq(s, i, Len(s)), WS))

At(s, i) == IF i \in 1..Len(s) THEN s[i] ELSE ""

\* pathlib: PurePath(s).name, the last non-empty component
PathName(s) == SplitLast(RStrip(s, {"/"}), "/")

\* urllib.parse.unquote on the escapes of the alphabet
unquote(s) ==
    [i \in 1..Len(s) |-> CASE s[i] = "%2F" -> "/" [] s[i] = "%20" -> " " [] OTHER -> s[i]]

(***************************************************************************)
(* Paths / Folder Map                                                      *)
(***************************************************************************)
\* the folder map: category key -> directory (the key stands for its folder)
folders == {"checkpoints", "loras"}

DOWNLOAD_BIN == <<"download.bin">>
PART == ".part"

\* dest_dir / filename
PathOf(dir, name) == <<dir, name>>
\* dest.with_suffix(dest.suffix + ".part")
with_suffix_part(p) == <<p[1], Append(p[2], PART)>>
NoPath == <<"", <<>> >>

(***************************************************************************)
(* Helpers                                                                 *)
(***************************************************************************)
\* mutant: only the forward slash is replaced
_safe_filename_ForwardOnly(name) ==
    LET n == Strip(Replace(name, "/", "_"), WS)
    IN  IF n = <<>> THEN DOWNLOAD_BIN ELSE n

_safe_filename(name) ==
    LET n == Strip(Replace(Replace(name, "\\", "_"), "/", "_"), WS)
    IN  IF n = <<>> THEN DOWNLOAD_BIN ELSE n

\* re.search(r"filename\*\s*=\s*UTF-8''([^;]+)"): the group of the match at i
CdExtAt(cd, i) ==
    LET j == SkipWs(cd, i + 2)
        k == SkipWs(cd, j + 1)
    IN  IF /\ At(cd, i) = "filename" /\ At(cd, i + 1) = "*"
           /\ At(cd, j) = "=" /\ At(cd, k) = "UTF-8''"
        THEN RunFrom(cd, k + 1, {";"})
        ELSE <<>>

\* re.search(r'filename\s*=\s*"([^"]+)"')
CdQuotedAt(cd, i) ==
    LET j == SkipWs(cd, i + 1)
        k == SkipWs(cd, j + 1)
        g == RunFrom(cd, k + 1, {QUOTE})
    IN  IF /\ At(cd, i) = "filename" /\ At(cd, j) = "=" /\ At(cd, k) = QUOTE
           /\ At(cd, k + 1 + Len(g)) = QUOTE
        THEN g
        ELSE <<>>

\* re.search(r"filename\s*=\s*([^;]+)"): the run after "=", white space included
CdBareAt(cd, i) ==
    LET j == SkipWs(cd, i + 1)
    IN  IF At(cd, i) = "filename" /\ At(cd, j) = "="
        THEN RunFrom(cd, j + 1, {";"})
        ELSE <<>>

\* leftmost index where each form matches, 0 if it matches nowhere
CdExtSearch(cd) ==
    IF \E i \in 1..Len(cd) : CdExtAt(cd, i) # <<>>
    THEN CHOOSE i \in 1..Len(cd) :
             CdExtAt(cd, i) # <<>> /\ \A j \in 1..(i - 1) : CdExtAt(cd, j) = <<>>
    ELSE 0

CdQuotedSearch(cd) ==
    IF \E i \in 1..Len(cd) : CdQuotedAt(cd, i) # <<>>
    THEN CHOOSE i \in 1..Len(cd) :
             CdQuotedAt(cd, i) # <<>> /\ \A j \in 1..(i - 1) : CdQuotedAt(cd, j) = <<>>
    ELSE 0

CdBareSearch(cd) ==
    IF \E i \in 1..Len(cd) : CdBareAt(cd, i) # <<>>
    THEN CHOOSE i \in 1..Len(cd) :
             CdBareAt(cd, i) # <<>> /\ \A j \in 1..(i - 1) : CdBareAt(cd, j) = <<>>
    ELSE 0

_filename_from_cd(cd) ==
    IF cd = None THEN None
    ELSE IF CdExtSearch(cd) # 0
         THEN PathName(unquote(Strip(Strip(CdExtAt(cd, CdExtSearch(cd)), WS), {QUOTE})))
    ELSE IF CdQuotedSearch(cd) # 0
         THEN PathName(CdQuotedAt(cd, CdQuotedSearch(cd)))
    ELSE IF CdBareSearch(cd) # 0
         THEN PathName(Strip(Strip(CdBareAt(cd, CdBareSearch(cd)), WS), {QUOTE}))
    ELSE None

\* token of s that contains the host pattern (substring test of the code)
Contains(url, pat) == \E i \in 1..Len(url) : url[i] = pat

\* os.environ.get(name, "").strip(): a value of white space only (" ") strips to ""
EnvStrip(v) == IF v = " " THEN "" ELSE v

_headers_for_url(url, e) ==
    LET civ == EnvStrip(e.CIVITAI_TOKEN)
        hf  == EnvStrip(e.HF_TOKEN)
        h1  == IF Contains(url, "civitai.com") /\ civ # "" THEN civ ELSE ""
    IN  [Authorization |->
            IF (Contains(url, "huggingface.co") \/ Contains(url, "hf.co")) /\ hf # ""
            THEN hf ELSE h1]

(***************************************************************************)
(* The remote side: what each URL serves                                   *)
(***************************************************************************)
U_F  == <<"http:", "/", "/", "h", "/", "f">>
U_FP == <<"http:", "/", "/", "h", "/", "f", ".part">>
U_CD == <<"https:", "/", "/", "civitai.com", "/", "api", "?", "id">>
URLS == {U_F, U_FP, U_CD}

\* the bytes of the resource behind a URL
Resource(url) ==
    CASE url = U_F  -> <<1, 2>>
      [] url = U_FP -> <<3, 4>>
      [] OTHER      -> <<7, 8>>

\* the Content-Disposition header the server of a URL sends (None: no header)
ContentDisposition(url) ==
    IF url = U_CD
    THEN <<"attachment", ";", " ", "filename", "=", QUOTE, "f", QUOTE>>
    ELSE None

\* whether the server of a URL declares Content-Length (U_CD streams chunked)
DeclaresLength(url) == url # U_CD

NoRange == -1
NoTotal == -1
NoCL == -1

\* the response to a GET with the given Range offset (NoRange: none) of a server that
\*   "honour": implements Range (206 with the rest, 416 past the end),
\*   "ignore": ignores Range (200 with everything),
\*   "fail":   answers with an error status,
\*   "unmodified": answers 304, a final response that is neither 2xx, 4xx nor 5xx
ServerModes == {"honour", "ignore", "fail", "unmodified"}
Respond(url, range, sm) ==
    LET R == Resource(url)
    IN  CASE sm = "fail" -> [status |-> 503, body |-> <<>>]
          [] sm = "unmodified" -> [status |-> 304, body |-> <<>>]
          [] sm = "ignore" \/ range = NoRange -> [status |-> 200, body |-> R]
          [] range < Len(R) -> [status |-> 206, body |-> SubSeq(R, range + 1, Len(R))]
          [] OTHER -> [status |-> 416, body |-> <<>>]

\* requests.Response.raise_for_status raises for 4xx and 5xx
IsErrorStatus(st) == st >= 400 /\ st < 600

(***************************************************************************)
(* State                                                                   *)
(***************************************************************************)
VARIABLES
    fs,        \* the files on disk: path -> bytes
    produced,  \* history: the paths whose file was put there by a rename
    dirs,      \* the directories that exist
    env,       \* os.environ: CIVITAI_TOKEN, HF_TOKEN
    now,       \* the latest reading of time.time() in the running download(), in
               \* ms; the clock is shifted so that each call starts at Epoch (the
               \* code compares readings with each other and with last_ui = 0 only)
    ui,        \* the handler that is running: "idle", "call", "single", "batch"
    calls,     \* handler invocations so far
    d,         \* the frame of the running download(): arguments, locals, position
    b,         \* the frame of the running _do_batch()
    w,         \* the widgets the handlers write
    events,    \* history: the progress events of the running download()
    net,       \* history: the requests of the running download()
    ops,       \* history: the file operations of the running download()
    h          \* the frame of a helper called on its own: arguments, result

vars == <<fs, produced, dirs, env, now, ui, calls, d, b, w, events, net, ops, h>>

\* how a call of download() ended: the path returned, or the exception raised
\* (at: the statement that raised it)
NoResult == [kind |-> "none", path |-> NoPath, err |-> "", at |-> ""]
Ok(p) == [kind |-> "ok", path |-> p, err |-> "", at |-> ""]
Err(e, at) == [kind |-> "err", path |-> NoPath, err |-> e, at |-> at]

IdleFrame ==
    [pc |-> "idle", url |-> <<>>, folder_key |-> "", filename |-> None,
     overwrite |-> FALSE, cb |-> FALSE, headers |-> [Authorization |-> ""],
     dest |-> NoPath, tmp |-> NoPath, existing |-> 0, total |-> NoTotal,
     mode |-> "", range |-> NoRange, status |-> 0, body |-> <<>>, wrote |-> 0,
     last_ui |-> 0, result |-> NoResult,
     \* history of the call: what the probe saw and what the transfer was sent
     fs0 |-> <<>>, cl |-> NoCL, dest0 |-> FALSE, part0 |-> <<>>, existing0 |-> 0,
     resp |-> <<>>,
     \* history of the loop: the clock readings at which a downloading event went out
     stamps |-> <<>>]

\* the frame of download(url, folder_key, filename, overwrite, progress_cb) on entry
NewFrame(u, fk, fn, ow, cb) ==
    [IdleFrame EXCEPT !.pc = "enter", !.url = u, !.folder_key = fk, !.filename = fn,
                      !.overwrite = ow, !.cb = cb, !.fs0 = fs]

Exists(p) == p \in DOMAIN fs
Size(p) == Len(fs[p])
WriteFile(f, p, data) == [q \in DOMAIN f \cup {p} |-> IF q = p THEN data ELSE f[q]]
RemoveFile(f, p) == [q \in DOMAIN f \ {p} |-> f[q]]

Event(downloaded, total, filename, phase) ==
    [downloaded |-> downloaded, total |-> total, filename |-> filename, phase |-> phase]

FileOp(op, p, arg) == [op |-> op, path |-> p, arg |-> arg]

\* what a status label shows: a text and, where the text has one, a number
Status(label, n) == <<label, n>>

\* the label the sink made by _make_progress_cb shows after an event
StatusAfter(phase) ==
    CASE phase = "skipped" -> "Skipped"
      [] phase = "done"    -> "Saved"
      [] OTHER             -> "Downloading"

\* progress_cb(...) when a sink was passed: the sink sees the event; the sinks of the
\* two handlers also write their status label
Emit(ev) ==
    /\ events' = IF d.cb THEN Append(events, ev) ELSE events
    /\ w' = IF ~d.cb THEN w
            ELSE IF ui = "single" THEN [w EXCEPT !.single_status = Status(StatusAfter(ev.phase), 0)]
            ELSE IF ui = "batch" THEN [w EXCEPT !.batch_status = Status(StatusAfter(ev.phase), 0)]
            ELSE w

Raise(e, at) == [d EXCEPT !.pc = "raised", !.result = Err(e, at)]

(***************************************************************************)
(* download()                                                              *)
(***************************************************************************)
\* the name the probe settles on
ResolveFilename(filename, cd, url) ==
    LET f1 == IF filename = None THEN _filename_from_cd(cd) ELSE filename
        f2 == IF f1 = None
              THEN (IF SplitLast(RStrip(SplitFirst(url, "?"), {"/"}), "/") = <<>>
                    THEN DOWNLOAD_BIN
                    ELSE SplitLast(RStrip(SplitFirst(url, "?"), {"/"}), "/"))
              ELSE f1
    IN  _safe_filename(f2)

\* total = (int(cl) + existing) if (cl and existing) else (int(cl) if cl else None)
ComputeTotal(cl, existing) ==
    IF cl # NoCL /\ existing # 0 THEN cl + existing
    ELSE IF cl # NoCL THEN cl ELSE NoTotal

\* mutant: an existing destination is never skipped
SkipExisting_Never(exists, overwrite) == FALSE

\* dest.exists() and not overwrite: nothing to do
SkipExisting(exists, overwrite) == exists /\ ~overwrite

\* mutant: the directory is made before the folder_key check
D_Enter_MkdirFirst ==
    /\ d.pc = "enter"
    /\ dirs' = dirs \cup {d.folder_key}
    /\ ops' = Append(ops, FileOp("mkdir", PathOf(d.folder_key, <<>>), ""))
    /\ d' = IF d.folder_key \notin folders
            THEN Raise("ValueError", "folder_key")
            ELSE [d EXCEPT !.pc = "probe", !.headers = _headers_for_url(d.url, env)]
    /\ UNCHANGED <<fs, produced, env, now, ui, calls, b, w, events, net, h>>

\* the folder_key check, mkdir and the header lookup
D_Enter ==
    /\ d.pc = "enter"
    /\ IF d.folder_key \notin folders
       THEN /\ d' = Raise("ValueError", "folder_key")
            /\ UNCHANGED <<dirs, ops>>
       ELSE /\ dirs' = dirs \cup {d.folder_key}
            /\ ops' = Append(ops, FileOp("mkdir", PathOf(d.folder_key, <<>>), ""))
            /\ d' = [d EXCEPT !.pc = "probe", !.headers = _headers_for_url(d.url, env)]
    /\ UNCHANGED <<fs, produced, env, now, ui, calls, b, w, events, net, h>>

ProbeRequest == [phase |-> "probe", url |-> d.url, auth |-> d.headers.Authorization,
                 range |-> NoRange]

\* the probe is answered with an error status: raise_for_status raises
D_ProbeFail ==
    /\ d.pc = "probe"
    /\ net' = Append(net, ProbeRequest)
    /\ d' = Raise("HTTPError", "probe")
    /\ UNCHANGED <<fs, produced, dirs, env, now, ui, calls, b, w, events, ops, h>>

\* the probe answers 200
D_Probe ==
    /\ d.pc = "probe"
    /\ net' = Append(net, ProbeRequest)
    /\  LET filename == ResolveFilename(d.filename, ContentDisposition(d.url), d.url)
            dest     == PathOf(d.folder_key, filename)
            tmp      == with_suffix_part(dest)
            existing == IF Exists(tmp) THEN Size(tmp) ELSE 0
            cl       == IF DeclaresLength(d.url) THEN Len(Resource(d.url)) ELSE NoCL
            seen     == [d EXCEPT !.filename = filename, !.dest = dest, !.tmp = tmp,
                                  !.cl = cl, !.dest0 = Exists(dest)]
        IN  IF SkipExisting(Exists(dest), d.overwrite)
            THEN /\ Emit(Event(Size(dest), Size(dest), filename, "skipped"))
                 /\ d' = [seen EXCEPT !.pc = "returned", !.result = Ok(dest)]
                 /\ UNCHANGED <<fs, produced, ops>>
            ELSE /\ IF Exists(dest) /\ d.overwrite
                    THEN /\ fs' = RemoveFile(fs, dest)
                         /\ produced' = produced \ {dest}
                         /\ ops' = Append(ops, FileOp("unlink", dest, ""))
                    ELSE UNCHANGED <<fs, produced, ops>>
                 /\ d' = [seen EXCEPT !.pc = "start", !.existing = existing,
                                      !.existing0 = existing,
                                      !.part0 = IF Exists(tmp) THEN fs[tmp] ELSE <<>>,
                                      !.total = ComputeTotal(cl, existing)]
                 /\ UNCHANGED <<events, w>>
    /\ UNCHANGED <<dirs, env, now, ui, calls, b, h>>

\* mutant: the partial file is always truncated
OpenMode_Truncate(existing) == "wb"

\* mode = "ab" if existing > 0 else "wb"
OpenMode(existing) == IF existing > 0 THEN "ab" ELSE "wb"
\* req_headers["Range"] = f"bytes={existing}-" if existing > 0
RangeHeader(existing) == IF existing > 0 THEN existing ELSE NoRange

\* mutant: the Range header and the append mode are set up where the sink is served
D_Start_SinkDriven ==
    /\ d.pc = "start"
    /\ d' = [d EXCEPT !.pc = "request",
                      !.range = IF d.cb THEN RangeHeader(d.existing) ELSE NoRange,
                      !.mode = IF d.cb THEN OpenMode(d.existing) ELSE "wb"]
    /\ Emit(Event(d.existing, d.total, d.filename, "start"))
    /\ UNCHANGED <<fs, produced, dirs, env, now, ui, calls, b, net, ops, h>>

\* request headers, open mode and the start event
D_Start ==
    /\ d.pc = "start"
    /\ d' = [d EXCEPT !.pc = "request", !.range = RangeHeader(d.existing),
                      !.mode = OpenMode(d.existing)]
    /\ Emit(Event(d.existing, d.total, d.filename, "start"))
    /\ UNCHANGED <<fs, produced, dirs, env, now, ui, calls, b, net, ops, h>>

TransferRequest == [phase |-> "transfer", url |-> d.url, auth |-> d.headers.Authorization,
                    range |-> d.range]

\* the transfer request gets no response
D_RequestFail ==
    /\ d.pc = "request"
    /\ net' = Append(net, TransferRequest)
    /\ d' = Raise("ConnectionError", "request")
    /\ UNCHANGED <<fs, produced, dirs, env, now, ui, calls, b, w, events, ops, h>>

\* existing > 0 and r2.status_code == 200: the server ignored Range
IsRestart(existing, status) == existing > 0 /\ status = 200

\* mutant: the counter is set from the size found by the probe, restart or not
D_Request_StaleWrote ==
    /\ d.pc = "request"
    /\ net' = Append(net, TransferRequest)
    /\ \E sm \in ServerModes :
        LET r2 == Respond(d.url, d.range, sm)
            restart == IsRestart(d.existing, r2.status)
            existing == IF restart THEN 0 ELSE d.existing
        IN  /\ IF restart
               THEN Emit(Event(existing, d.total, d.filename, "restart"))
               ELSE UNCHANGED <<events, w>>
            /\ d' = IF IsErrorStatus(r2.status)
                    THEN [Raise("HTTPError", "status") EXCEPT !.status = r2.status]
                    ELSE [d EXCEPT !.pc = "open", !.status = r2.status,
                                   !.existing = existing,
                                   !.mode = IF restart THEN "wb" ELSE d.mode,
                                   !.wrote = d.existing, !.last_ui = 0,
                                   !.body = r2.body, !.resp = r2.body]
    /\ UNCHANGED <<fs, produced, dirs, env, now, ui, calls, b, ops, h>>

\* the transfer request is answered: restart on a 200 to a ranged request, raise on
\* an error status, else set up the streaming loop
D_Request ==
    /\ d.pc = "request"
    /\ net' = Append(net, TransferRequest)
    /\ \E sm \in ServerModes :
        LET r2 == Respond(d.url, d.range, sm)
            restart == IsRestart(d.existing, r2.status)
            existing == IF restart THEN 0 ELSE d.existing
        IN  /\ IF restart
               THEN Emit(Event(existing, d.total, d.filename, "restart"))
               ELSE UNCHANGED <<events, w>>
            /\ d' = IF IsErrorStatus(r2.status)
                    THEN [Raise("HTTPError", "status") EXCEPT !.status = r2.status]
                    ELSE [d EXCEPT !.pc = "open", !.status = r2.status,
                                   !.existing = existing,
                                   !.mode = IF restart THEN "wb" ELSE d.mode,
                                   !.wrote = existing, !.last_ui = 0,
                                   !.body = r2.body, !.resp = r2.body]
    /\ UNCHANGED <<fs, produced, dirs, env, now, ui, calls, b, ops, h>>

\* open(tmp, mode): "wb" creates or truncates, "ab" creates or keeps
D_Open ==
    /\ d.pc = "open"
    /\ fs' = IF d.mode = "wb" \/ ~Exists(d.tmp) THEN WriteFile(fs, d.tmp, <<>>) ELSE fs
    /\ ops' = Append(ops, FileOp("open", d.tmp, d.mode))
    /\ d' = [d EXCEPT !.pc = "stream"]
    /\ UNCHANGED <<produced, dirs, env, now, ui, calls, b, w, events, net, h>>

\* open(tmp, mode) raises
D_OpenFail ==
    /\ d.pc = "open"
    /\ d' = Raise("OSError", "open")
    /\ UNCHANGED <<fs, produced, dirs, env, now, ui, calls, b, w, events, net, ops, h>>

THROTTLE_MS == 150
\* what the clock may read next. The first reading of a call is compared with
\* last_ui = 0 only, so it is taken as the origin; after it the clock never runs
\* backwards: between two chunks no measurable time or just the throttle window may pass
Readings ==
    IF d.last_ui = 0 THEN {Epoch}
    ELSE {t \in {now, now + THROTTLE_MS} : t <= Epoch + ClockSpan}

\* mutant: no throttle
Due_Always(t, last_ui) == TRUE

\* (now - last_ui) >= 0.15
Due(t, last_ui) == t - last_ui >= THROTTLE_MS

\* one turn of the streaming loop: a chunk of n bytes (n = 0: an empty chunk, skipped)
D_Chunk ==
    /\ d.pc = "stream"
    /\ d.body # <<>>
    /\ \E n \in 0..MaxChunk :
        /\ n <= Len(d.body)
        /\ IF n = 0
           THEN UNCHANGED <<fs, d, now, events, w>>
           ELSE LET wrote == d.wrote + n
                IN  /\ fs' = WriteFile(fs, d.tmp, fs[d.tmp] \o SubSeq(d.body, 1, n))
                    /\ IF d.cb
                       THEN \E t \in Readings :
                              /\ now' = t
                              /\ IF Due(t, d.last_ui)
                                 THEN /\ Emit(Event(wrote, d.total, d.filename, "downloading"))
                                      /\ d' = [d EXCEPT !.wrote = wrote, !.last_ui = t,
                                                 !.stamps = Append(@, t),
                                                 !.body = SubSeq(d.body, n + 1, Len(d.body))]
                                 ELSE /\ UNCHANGED <<events, w>>
                                      /\ d' = [d EXCEPT !.wrote = wrote,
                                                 !.body = SubSeq(d.body, n + 1, Len(d.body))]
                       ELSE /\ UNCHANGED <<now, events, w>>
                            /\ d' = [d EXCEPT !.wrote = wrote,
                                       !.body = SubSeq(d.body, n + 1, Len(d.body))]
    /\ UNCHANGED <<produced, dirs, env, ui, calls, b, net, ops, h>>

\* the connection breaks while the body is read: iter_content raises, the file is closed
D_StreamFail ==
    /\ d.pc = "stream"
    /\ d' = Raise("ConnectionError", "stream")
    /\ UNCHANGED <<fs, produced, dirs, env, now, ui, calls, b, w, events, net, ops, h>>

\* the body is exhausted: the file is closed and tmp.rename(dest) succeeds
D_Rename ==
    /\ d.pc = "stream"
    /\ d.body = <<>>
    /\ fs' = WriteFile(RemoveFile(fs, d.tmp), d.dest, fs[d.tmp])
    /\ produced' = (produced \ {d.tmp}) \cup {d.dest}
    /\ ops' = Append(ops, FileOp("rename", d.tmp, d.dest[2]))
    /\ d' = [d EXCEPT !.pc = "renamed"]
    /\ UNCHANGED <<dirs, env, now, ui, calls, b, w, events, net, h>>

\* mutant: a failed rename cleans the partial file away
D_RenameFail_Cleanup ==
    /\ d.pc = "stream"
    /\ d.body = <<>>
    /\ fs' = RemoveFile(fs, d.tmp)
    /\ d' = Raise("OSError", "rename")
    /\ UNCHANGED <<produced, dirs, env, now, ui, calls, b, w, events, net, ops, h>>

\* the body is exhausted and tmp.rename(dest) raises: nothing is moved
D_RenameFail ==
    /\ d.pc = "stream"
    /\ d.body = <<>>
    /\ d' = Raise("OSError", "rename")
    /\ UNCHANGED <<fs, produced, dirs, env, now, ui, calls, b, w, events, net, ops, h>>

\* mutant: the return without the done event
D_Done_Silent ==
    /\ d.pc = "renamed"
    /\ d' = [d EXCEPT !.pc = "returned", !.result = Ok(d.dest)]
    /\ UNCHANGED <<fs, produced, dirs, env, now, ui, calls, b, w, events, net, ops, h>>

\* the done event and the return
D_Done ==
    /\ d.pc = "renamed"
    /\ Emit(Event(Size(d.dest), Size(d.dest), d.filename, "done"))
    /\ d' = [d EXCEPT !.pc = "returned", !.result = Ok(d.dest)]
    /\ UNCHANGED <<fs, produced, dirs, env, now, ui, calls, b, net, ops, h>>

Download ==
    \/ D_Enter \/ D_ProbeFail \/ D_Probe \/ D_Start \/ D_RequestFail \/ D_Request
    \/ D_Open \/ D_OpenFail \/ D_Chunk \/ D_StreamFail \/ D_Rename \/ D_RenameFail
    \/ D_Done

Finished == d.pc \in {"returned", "raised"}

(***************************************************************************)
(* Batch parsing                                                           *)
(***************************************************************************)
\* s.split(None, 1) of a stripped, non-empty line: the first word, and the rest
\* without the white space between (<<>> when there is no second part)
FirstWord(s) == RunFrom(s, 1, WS)
Remainder(s) == LStrip(SubSeq(s, Len(FirstWord(s)) + 1, Len(s)), WS)

IsFolderKey(word) == Len(word) = 1 /\ word[1] \in folders

\* mutant: a folder key is taken as such also when nothing follows it
ParseLine_KeyAlone(line) ==
    LET s == Strip(line, WS)
    IN  IF s = <<>> \/ Head(s) = "#" THEN <<>>
        ELSE IF IsFolderKey(FirstWord(s))
             THEN << <<FirstWord(s)[1], Strip(Remainder(s), WS)>> >>
             ELSE << <<"", s>> >>

\* the item of one line, if it yields one: <<folder key or "", url>>
ParseLine(line) ==
    LET s == Strip(line, WS)
    IN  IF s = <<>> \/ Head(s) = "#" THEN <<>>
        ELSE IF Remainder(s) # <<>> /\ IsFolderKey(FirstWord(s))
             THEN << <<FirstWord(s)[1], Strip(Remainder(s), WS)>> >>
             ELSE << <<"", s>> >>

RECURSIVE _parse_batch_lines(_)
_parse_batch_lines(text) ==
    IF text = <<>> THEN <<>>
    ELSE ParseLine(Head(text)) \o _parse_batch_lines(Tail(text))

(***************************************************************************)
(* Handlers                                                                *)
(***************************************************************************)
MAX_RETRIES == 2

IdleBatch ==
    [pc |-> "idle", parsed |-> <<>>, ow |-> FALSE, default_folder |-> "", i |-> 0,
     folder_key |-> "", url |-> <<>>, attempt |-> 0, success |-> FALSE,
     last_err |-> "", fails |-> 0, fail_list |-> <<>>,
     \* history of the run: the attempts made, as <<item, succeeded>>; the items given
     \* up, as <<item, error raised by the last call of download()>>
     log |-> <<>>, gave_up |-> <<>>]

IdleWidgets ==
    [single_status |-> Status("Idle", 0), batch_status |-> Status("Idle", 0),
     btn_single_disabled |-> FALSE, btn_batch_disabled |-> FALSE]

\* a call of download() starts with nothing observed yet
StartDownload(u, fk, fn, ow, cb) ==
    /\ d' = NewFrame(u, fk, fn, ow, cb)
    /\ events' = <<>>
    /\ net' = <<>>
    /\ ops' = <<>>

\* the locals of a finished download() are gone
DropDownload ==
    /\ d' = IdleFrame
    /\ now' = Epoch
    /\ events' = <<>>
    /\ net' = <<>>
    /\ ops' = <<>>

\* download(...) called from a notebook cell, with or without a sink
CallDownload(u, fk, fn, ow, cb) ==
    /\ ui = "idle"
    /\ calls < MaxCalls
    /\ calls' = calls + 1
    /\ ui' = "call"
    /\ StartDownload(u, fk, fn, ow, cb)
    /\ UNCHANGED <<fs, produced, dirs, env, now, b, w, h>>

CallReturn ==
    /\ ui = "call"
    /\ Finished
    /\ ui' = "idle"
    /\ DropDownload
    /\ UNCHANGED <<fs, produced, dirs, env, calls, b, w, h>>

\* _do_single up to the call of download(): url_tb, name_tb, folder and overwrite
\* are what the widgets hold
DoSingle(url_tb, name_tb, folder, ow) ==
    /\ ui = "idle"
    /\ calls < MaxCalls
    /\ calls' = calls + 1
    /\ IF Strip(url_tb, WS) = <<>>
       THEN /\ w' = [w EXCEPT !.single_status = Status("Paste a URL first.", 0)]
            /\ UNCHANGED <<ui, d, events, net, ops>>
       ELSE /\ w' = [w EXCEPT !.single_status = Status("Starting", 0),
                              !.btn_single_disabled = TRUE]
            /\ ui' = "single"
            /\ StartDownload(Strip(url_tb, WS), folder, Strip(name_tb, WS), ow, TRUE)
    /\ UNCHANGED <<fs, produced, dirs, env, now, b, h>>

\* _do_single after download(): the except and finally clauses
SingleReturn ==
    /\ ui = "single"
    /\ Finished
    /\ w' = [w EXCEPT !.single_status =
                        IF d.result.kind = "err" THEN Status("FAILED", 0) ELSE @,
                      !.btn_single_disabled = FALSE]
    /\ ui' = "idle"
    /\ DropDownload
    /\ UNCHANGED <<fs, produced, dirs, env, calls, b, h>>

\* _do_batch up to the loop over the items
DoBatch(text, default_folder, ow) ==
    /\ ui = "idle"
    /\ calls < MaxCalls
    /\ calls' = calls + 1
    /\ LET parsed == _parse_batch_lines(text)
       IN  IF parsed = <<>>
           THEN /\ w' = [w EXCEPT !.batch_status = Status("Paste at least one URL.", 0)]
                /\ UNCHANGED <<ui, b>>
           ELSE /\ w' = [w EXCEPT !.batch_status = Status("Starting", 0),
                                  !.btn_batch_disabled = TRUE]
                /\ ui' = "batch"
                /\ b' = [IdleBatch EXCEPT !.pc = "item", !.parsed = parsed, !.ow = ow,
                                          !.default_folder = default_folder, !.i = 1]
    /\ UNCHANGED <<fs, produced, dirs, env, now, d, events, net, ops, h>>

\* the head of the loop body for item i, up to the call of download() of attempt 1
B_Item ==
    /\ ui = "batch"
    /\ b.pc = "item"
    /\ LET fk  == b.parsed[b.i][1]
           url == Strip(b.parsed[b.i][2], WS)
           folder_key == IF fk = "" THEN b.default_folder ELSE fk
       IN  /\ b' = [b EXCEPT !.pc = "wait", !.folder_key = folder_key, !.url = url,
                             !.attempt = 1, !.success = FALSE, !.last_err = ""]
           /\ StartDownload(url, folder_key, None, b.ow, TRUE)
    /\ w' = [w EXCEPT !.batch_status = Status("Item", b.i)]
    /\ UNCHANGED <<fs, produced, dirs, env, now, ui, calls, h>>

\* the call of download() of a retry
B_Retry ==
    /\ ui = "batch"
    /\ b.pc = "retry"
    /\ b' = [b EXCEPT !.pc = "wait"]
    /\ StartDownload(b.url, b.folder_key, None, b.ow, TRUE)
    /\ UNCHANGED <<fs, produced, dirs, env, now, ui, calls, w, h>>

\* mutant: one attempt more
HasNextAttempt_Extra(attempt) == attempt < MAX_RETRIES + 2

\* whether another attempt follows a failed one: attempt in range(1, MAX_RETRIES + 2)
HasNextAttempt(attempt) == attempt < MAX_RETRIES + 1

\* fail_list.append((folder_key, url, str(last_err)))
FailEntry(folder_key, url, last_err) ==
    [folder_key |-> folder_key, url |-> url, err |-> last_err]

\* mutant: an item given up ends the loop
AfterItem_Abort(failed, i, n) == IF i < n /\ ~failed THEN "item" ELSE "summary"

\* where the loop over the items goes after item i of n is settled (whether it
\* failed or not): on to the next item, or out of the loop
AfterItem(failed, i, n) == IF i < n THEN "item" ELSE "summary"

\* after an attempt: success ends the item, a failure is retried (after the sleep) or,
\* with no attempt left, recorded; then the next item, or the end of the loop
B_After ==
    /\ ui = "batch"
    /\ b.pc = "wait"
    /\ Finished
    /\ LET ok       == d.result.kind = "ok"
           last_err == IF ok THEN b.last_err ELSE d.result.err
           again    == ~ok /\ HasNextAttempt(b.attempt)
           failed   == ~ok /\ ~again
           next_pc  == IF again THEN "retry" ELSE AfterItem(failed, b.i, Len(b.parsed))
       IN  b' = [b EXCEPT !.success = ok,
                          !.log = Append(@, <<b.i, ok>>),
                          !.gave_up = IF failed THEN Append(@, <<b.i, d.result.err>>) ELSE @,
                          !.last_err = last_err,
                          !.attempt = IF again THEN @ + 1 ELSE @,
                          !.fails = IF failed THEN @ + 1 ELSE @,
                          !.fail_list = IF failed
                                        THEN Append(@, FailEntry(b.folder_key, b.url, last_err))
                                        ELSE @,
                          !.i = IF next_pc = "item" THEN @ + 1 ELSE @,
                          !.pc = next_pc]
    /\ DropDownload
    /\ UNCHANGED <<fs, produced, dirs, env, ui, calls, w, h>>

\* after the loop: the final status
B_Summary ==
    /\ ui = "batch"
    /\ b.pc = "summary"
    /\ w' = [w EXCEPT !.batch_status = Status("Done. Failures:", b.fails)]
    /\ b' = [b EXCEPT !.pc = "done"]
    /\ UNCHANGED <<fs, produced, dirs, env, now, ui, calls, d, events, net, ops, h>>

\* the finally clause and the return
B_Finally ==
    /\ ui = "batch"
    /\ b.pc = "done"
    /\ w' = [w EXCEPT !.btn_batch_disabled = FALSE]
    /\ b' = IdleBatch
    /\ ui' = "idle"
    /\ UNCHANGED <<fs, produced, dirs, env, now, calls, d, events, net, ops, h>>

Batch == B_Item \/ B_Retry \/ B_After \/ B_Summary \/ B_Finally

(***************************************************************************)
(* Inputs                                                                  *)
(***************************************************************************)
\* batch texts: lines of tokens
TEXT_COLLIDE == <<U_FP, <<" ">> \o U_F>>
TEXT_SAME    == <<U_CD, <<"#", " ", "again">>, <<>>, U_F \o <<" ">> >>
TEXT_FOLDER  == << <<"loras", " ", " ">> \o U_F, <<"#">> \o U_F >>
TEXT_BLANK   == << <<" ">>, <<"#", "loras">> >>
BatchTexts == {TEXT_COLLIDE, TEXT_SAME, TEXT_FOLDER, TEXT_BLANK}

\* arguments of direct calls
CallUrls == {U_F}
CallFolders == {"checkpoints", "embeddings"}
CallNames == {None, <<" ", "d", "/", "f">>}

\* what the widgets of the single tab may hold
SingleUrls == {<<" ">>, <<" ">> \o U_FP}
SingleNames == {<<>>, <<"f", " ">>}

Environments == {[CIVITAI_TOKEN |-> "civ-secret", HF_TOKEN |-> ""]}

\* no helper is being called on its own
NoEval == [pc |-> "idle", fn |-> "", arg |-> <<>>, out |-> <<>>]

(***************************************************************************)
(* Specification                                                           *)
(***************************************************************************)
\* the program state once the module is loaded, with the given files on disk
Booted(files) ==
    /\ fs = files
    /\ produced = {}
    /\ dirs = folders
    /\ env \in Environments
    /\ now = Epoch
    /\ ui = "idle"
    /\ calls = 0
    /\ d = IdleFrame
    /\ b = IdleBatch
    /\ w = IdleWidgets
    /\ events = <<>>
    /\ net = <<>>
    /\ ops = <<>>

Loaded == Booted(<<>>)

Init == Loaded /\ h = NoEval

Next ==
    \/ \E u \in CallUrls, fk \in CallFolders, fn \in CallNames, ow \in BOOLEAN,
          cb \in BOOLEAN : CallDownload(u, fk, fn, ow, cb)
    \/ CallReturn
    \/ \E u \in SingleUrls, n \in SingleNames, ow \in BOOLEAN :
          DoSingle(u, n, "loras", ow)
    \/ SingleReturn
    \/ \E t \in BatchTexts, ow \in BOOLEAN : DoBatch(t, "checkpoints", ow)
    \/ Batch
    \/ Download

Spec == Init /\ [][Next]_vars

\* batch runs alone, and never suspended for good: every call of download() returns
\* or raises, and the loop of _do_batch goes on
NextBatch ==
    \/ \E t \in BatchTexts, ow \in BOOLEAN : DoBatch(t, "checkpoints", ow)
    \/ Batch
    \/ Download

BatchSpec == Init /\ [][NextBatch]_vars /\ WF_vars(Batch \/ Download)

(***************************************************************************)
(* The helpers on their own: each is applied to one input                  *)
(***************************************************************************)
SeqsUpTo(S, n) == UNION {[1..k -> S] : k \in 0..n}

HelperCall(fn, arg) == [pc |-> "called", fn |-> fn, arg |-> arg, out |-> <<>>]
HelperReturn(out) == [h EXCEPT !.pc = "returned", !.out = out]

\* names: every text of up to MaxNameLen tokens
NameTokens == {"/", "\\", " ", "a", "_"}
Names == SeqsUpTo(NameTokens, MaxNameLen)

\* filename overrides, Content-Disposition values and URLs of a probe
Overrides == {None, <<"o">>, <<" ">>, <<"d", "/", "o">>}
CD_QUOTED == <<"attachment", ";", " ", "filename", "=", QUOTE, "c", QUOTE>>
CD_EXT    == <<"filename", "*", "=", "UTF-8''", "e", "%2F", "g", "%20", ";", "filename", "=", "b">>
CD_BARE   == <<"inline", ";", "filename", " ", "=", " ", "x", "/", "b", " ">>
CD_NONAME == <<"attachment">>
CD_SLASH  == <<"filename", "=", QUOTE, "/", QUOTE>>
Dispositions == {None, CD_QUOTED, CD_EXT, CD_BARE, CD_NONAME, CD_SLASH}
U_DIR   == <<"http:", "/", "/", "h", "/", "p", "/", "/", "?", "q", "/", "r">>
U_HOST  == <<"http:", "/", "/", "h">>
U_ROOT  == <<"http:", "/", "/", "h", "/", "?", "q">>
U_EMPTY == <<"http:", "/", "/">>
ProbeUrls == {U_F, U_FP, U_DIR, U_HOST, U_ROOT, U_EMPTY}

\* batch lines: blank, comment, plain URL, folder key and URL, a folder key alone, a
\* first word that is no folder key
L_EMPTY   == <<>>
L_BLANK   == <<" ", " ">>
L_COMMENT == <<"#", "loras", " ", "u">>
L_INDENT  == <<" ", "#">>
L_URL     == <<" ">> \o U_F
L_KEYED   == <<" ", "loras", " ", " ">> \o U_FP \o <<" ">>
L_KEY     == <<"loras", " ">>
L_WORD    == <<"x", " ">> \o U_F
L_LONGKEY == <<"loras", ".part", " ", "u">>
L_HASH    == <<"checkpoints", " ", "#", "u">>
Lines == {L_EMPTY, L_BLANK, L_COMMENT, L_INDENT, L_URL, L_KEYED, L_KEY, L_WORD,
          L_LONGKEY, L_HASH}
Texts == SeqsUpTo(Lines, MaxLines)

\* URLs and environments of a header lookup: a provider as the host, inside the
\* host, or only in the path or the query of another host's URL
U_HF     == <<"https:", "/", "/", "huggingface.co", "/", "m">>
U_HFCO   == <<"https:", "/", "/", "cdn.", "hf.co", "/", "m">>
U_PATH   == <<"http:", "/", "/", "h", "/", "civitai.com", "/", "m">>
U_QUERY  == <<"http:", "/", "/", "h", "/", "m", "?", "ref", "=", "hf.co">>
U_BOTH   == <<"https:", "/", "/", "civitai.com", "/", "m", "?", "via", "=", "huggingface.co">>
HeaderUrls == {U_F, U_CD, U_HF, U_HFCO, U_PATH, U_QUERY, U_BOTH}
HeaderEnvs == [CIVITAI_TOKEN : {"", " ", "civ-secret"}, HF_TOKEN : {"", "hf-secret"}]

H_safe_filename ==
    /\ h.pc = "called" /\ h.fn = "_safe_filename"
    /\ h' = HelperReturn(_safe_filename(h.arg))
    /\ UNCHANGED <<fs, produced, dirs, env, now, ui, calls, d, b, w, events, net, ops>>

\* the filename resolution of download(), given the override, the header and the URL
H_ResolveFilename ==
    /\ h.pc = "called" /\ h.fn = "ResolveFilename"
    /\ h' = HelperReturn(ResolveFilename(h.arg[1], h.arg[2], h.arg[3]))
    /\ UNCHANGED <<fs, produced, dirs, env, now, ui, calls, d, b, w, events, net, ops>>

H_parse_batch_lines ==
    /\ h.pc = "called" /\ h.fn = "_parse_batch_lines"
    /\ h' = HelperReturn(_parse_batch_lines(h.arg))
    /\ UNCHANGED <<fs, produced, dirs, env, now, ui, calls, d, b, w, events, net, ops>>

H_headers_for_url ==
    /\ h.pc = "called" /\ h.fn = "_headers_for_url"
    /\ h' = HelperReturn(_headers_for_url(h.arg[1], h.arg[2]))
    /\ UNCHANGED <<fs, produced, dirs, env, now, ui, calls, d, b, w, events, net, ops>>

HelperCalls ==
    {HelperCall("_safe_filename", s) : s \in Names}
    \cup {HelperCall("_headers_for_url", <<u, e>>) : u \in HeaderUrls, e \in HeaderEnvs}
    \cup {HelperCall("_parse_batch_lines", t) : t \in Texts}
    \cup {HelperCall("ResolveFilename", <<o, cd, u>>) :
             o \in Overrides, cd \in Dispositions, u \in ProbeUrls}

HelperInit == Loaded /\ h \in HelperCalls

HelperNext ==
    H_safe_filename \/ H_ResolveFilename \/ H_parse_batch_lines \/ H_headers_for_url

HelperSpec == HelperInit /\ [][HelperNext]_vars

(***************************************************************************)
(* The same call of download() made twice from the same files: first with  *)
(* a sink, then without                                                    *)
(***************************************************************************)
\* files a call may find: nothing, a partial file, a finished file, both
F_PART == <<"checkpoints", <<"f", ".part">> >>
F_DEST == <<"checkpoints", <<"f">> >>
TwinFiles ==
    {<<>>,
     [p \in {F_PART} |-> <<9>>],
     [p \in {F_DEST} |-> <<5, 6>>],
     [p \in {F_PART, F_DEST} |-> IF p = F_PART THEN <<1>> ELSE <<5, 6>>]}

\* the statement at which the environment made the call fail, if it did
EnvFaults == {"probe", "request", "open", "stream", "rename"}
FaultAt(result) == IF result.at \in EnvFaults THEN result.at ELSE "none"

\* what a finished call leaves to be seen, and what its environment did
Outcome ==
    [net |-> net, ops |-> ops, fs |-> fs, result |-> d.result,
     range |-> d.range, status |-> d.status, resp |-> d.resp,
     fault |-> FaultAt(d.result), consumed |-> Len(d.resp) - Len(d.body),
     events |-> Len(events)]

\* the first call: with a sink
T_First(files, u, fn, ow) ==
    /\ ui = "idle"
    /\ h.pc = "idle"
    /\ fs = files
    /\ ui' = "call"
    /\ h' = [pc |-> "first", fn |-> "download", arg |-> <<files, u, fn, ow>>, out |-> <<>>]
    /\ StartDownload(u, "checkpoints", fn, ow, TRUE)
    /\ UNCHANGED <<fs, produced, dirs, env, now, calls, b, w>>

\* the first call is over: the files are put back and the call is made again, without
\* a sink
T_Second ==
    /\ ui = "call"
    /\ h.pc = "first"
    /\ Finished
    /\ h' = [h EXCEPT !.pc = "second", !.out = Outcome]
    /\ fs' = h.arg[1]
    /\ produced' = {}
    /\ now' = Epoch
    /\ LET f == [NewFrame(h.arg[2], "checkpoints", h.arg[3], h.arg[4], FALSE)
                   EXCEPT !.fs0 = h.arg[1]]
       IN  d' = f
    /\ events' = <<>>
    /\ net' = <<>>
    /\ ops' = <<>>
    /\ UNCHANGED <<dirs, env, ui, calls, b, w>>

TwinInit == (\E files \in TwinFiles : Booted(files)) /\ h = NoEval

TwinNext ==
    \/ \E u \in CallUrls, fn \in CallNames, ow \in BOOLEAN : T_First(fs, u, fn, ow)
    \/ T_Second
    \/ Download

TwinSpec == TwinInit /\ [][TwinNext]_vars

(***************************************************************************)
(* Claims                                                                  *)
(***************************************************************************)
Returned == d.pc = "returned"
TransferRequests == {i \in 1..Len(net) : net[i].phase = "transfer"}
Opens == {i \in 1..Len(ops) : ops[i].op = "open"}
Phases == [i \in 1..Len(events) |-> events[i].phase]
Count(ph) == Cardinality({i \in 1..Len(events) : events[i].phase = ph})

\* a call that found a partial file, asked for the rest and got 206 has returned
Resumed == Returned /\ d.existing0 > 0 /\ d.status = 206
\* a call that asked for a range and got 200 has returned
Restarted == Returned /\ d.range # NoRange /\ d.status = 200

\* C1: a resumed download sends Range: bytes=K-, opens the partial file for append, and
\* leaves at the destination the K bytes the partial file held at probe time followed
\* by the response body
C1_ResumeKeepsPrefix ==
    Resumed =>
        /\ Len(d.part0) = d.existing0
        /\ \E i \in TransferRequests : net[i].range = d.existing0
        /\ \A i \in TransferRequests : net[i].range = d.existing0
        /\ Opens # {}
        /\ \A i \in Opens : ops[i].path = d.tmp /\ ops[i].arg = "ab"
        /\ Exists(d.dest)
        /\ fs[d.dest] = d.part0 \o d.resp

\* a resume whose partial bytes are not those of the resource now served
C1_Witness ==
    /\ Resumed
    /\ d.resp = SubSeq(Resource(d.url), d.existing0 + 1, Len(Resource(d.url)))
    /\ d.part0 = <<7>>
    /\ fs[d.dest] = <<7, 2>>

\* C2: after a resumed download whose probe declared the size of the resource, the
\* length of the final file is the total that download() computed
C2_ResumedSizeIsTotal ==
    (Resumed /\ d.cl = Len(Resource(d.url))) => Len(fs[d.dest]) = d.total

\* C3: a 200 answer to a ranged request: a restart event, the partial file truncated
\* before any byte is written, the destination holding the body once, of size total
C3_RestartWritesBodyOnce ==
    (Restarted /\ d.cl # NoCL) =>
        /\ d.cb => Count("restart") = 1
        /\ \A i \in Opens : ops[i].path = d.tmp /\ ops[i].arg = "wb"
        /\ fs[d.dest] = d.resp
        /\ Len(fs[d.dest]) = d.total

\* what C3 says apart from the size being the total
C3_RestartBody ==
    Restarted =>
        /\ d.cb => Count("restart") = 1
        /\ Opens # {}
        /\ \A i \in Opens : ops[i].path = d.tmp /\ ops[i].arg = "wb"
        /\ fs[d.dest] = d.resp

\* C4: a destination found at probe time is either skipped (overwrite off: no transfer
\* request, only a skip event with the file's size twice, no file changed, the path
\* returned) or removed before the transfer request goes out (overwrite on)
C4_OverwriteSemantics ==
    /\ (Finished /\ d.dest0 /\ ~d.overwrite) =>
        /\ TransferRequests = {}
        /\ events = IF d.cb
                    THEN <<Event(Len(d.fs0[d.dest]), Len(d.fs0[d.dest]), d.filename, "skipped")>>
                    ELSE <<>>
        /\ fs = d.fs0
        /\ d.result = Ok(d.dest)
    /\ (d.dest0 /\ d.overwrite /\ d.pc \in {"start", "request"}) =>
        /\ ~Exists(d.dest)
        /\ TransferRequests = {}
        /\ \E i \in 1..Len(ops) : ops[i] = FileOp("unlink", d.dest, "")
    /\ (d.dest0 /\ TransferRequests # {}) => d.overwrite

\* a skip reported to a sink
C4_Witness ==
    /\ Returned /\ d.dest0 /\ ~d.overwrite /\ d.cb
    /\ Len(fs[d.dest]) = 2

\* C5: a file that a rename put at a destination path is never opened for writing
C5_DestinationOnlyByRename ==
    [][(d.pc = "open" /\ d'.pc = "stream") => d.tmp \notin produced]_vars

\* C6: a failed rename raises, emits no done event, leaves the partial file with all
\* it held, and nothing at the destination
C6_RenameFailure ==
    (d.pc = "raised" /\ d.result.at = "rename") =>
        /\ d.result.kind = "err"
        /\ Count("done") = 0
        /\ Exists(d.tmp)
        /\ fs[d.tmp] = (IF d.mode = "ab" THEN d.part0 ELSE <<>>) \o d.resp
        /\ ~Exists(d.dest)

C6_Witness ==
    /\ d.pc = "raised" /\ d.result.at = "rename" /\ d.cb
    /\ d.dest0
    /\ Len(fs[d.tmp]) = 2

\* the attempts of item i so far, and whether its turn is over
Tries(i) == {j \in 1..Len(b.log) : b.log[j][1] = i}
Succeeded(i) == \E j \in Tries(i) : b.log[j][2]
GivenUp(i) == {k \in 1..Len(b.gave_up) : b.gave_up[k][1] = i}
Settled(i) == i < b.i \/ b.pc \in {"summary", "done"}
ItemFolder(i) == IF b.parsed[i][1] = "" THEN b.default_folder ELSE b.parsed[i][1]
ItemUrl(i) == Strip(b.parsed[i][2], WS)

\* C7: at most 3 attempts for an item, none after a success; an item that succeeds
\* (also on attempt 3) is in no entry of the failure list; an item that failed 3 times
\* is in exactly one, with its category, its URL and the error of the third attempt
C7_BatchRetry ==
    ui = "batch" =>
        /\ b.attempt <= 3
        /\ \A i \in 1..Len(b.parsed) :
            /\ Cardinality(Tries(i)) <= 3
            /\ \A j, k \in Tries(i) : j < k => ~b.log[j][2]
            /\ Settled(i) =>
                /\ Succeeded(i) => GivenUp(i) = {}
                /\ ~Succeeded(i) => Cardinality(Tries(i)) = 3 /\ Cardinality(GivenUp(i)) = 1
        /\ Len(b.fail_list) = Len(b.gave_up)
        /\ b.fails = Len(b.fail_list)
        /\ \A k \in 1..Len(b.gave_up) :
            b.fail_list[k] = FailEntry(ItemFolder(b.gave_up[k][1]), ItemUrl(b.gave_up[k][1]),
                                       b.gave_up[k][2])

\* one item succeeded on its third attempt, the other failed three times, its last
\* error not being its first
C7_Witness ==
    /\ b.pc = "done"
    /\ b.log = << <<1, FALSE>>, <<1, FALSE>>, <<1, FALSE>>,
                  <<2, FALSE>>, <<2, FALSE>>, <<2, TRUE>> >>
    /\ b.fail_list = <<FailEntry("checkpoints", U_FP, "OSError")>>

\* C8: the attempts go through the items in input order, the loop ends only after
\* every item had an attempt, and the failure list is in input order
C8_BatchNeverAborts ==
    ui = "batch" =>
        /\ \A j, k \in 1..Len(b.log) : j < k => b.log[j][1] <= b.log[k][1]
        /\ \A i \in 1..Len(b.parsed) : Settled(i) => Tries(i) # {}
        /\ b.pc \in {"summary", "done"} => b.i = Len(b.parsed)
        /\ \A j, k \in 1..Len(b.gave_up) : j < k => b.gave_up[j][1] < b.gave_up[k][1]
        /\ \A k \in 1..Len(b.fail_list) : b.fail_list[k].url = ItemUrl(b.gave_up[k][1])

\* the first item was given up and the second still had its attempts
C8_Witness ==
    /\ b.pc = "done"
    /\ Len(b.parsed) = 2
    /\ GivenUp(1) # {}
    /\ Cardinality(Tries(2)) = 2
    /\ Succeeded(2)

\* C9: a batch run reaches its summary, after at most 3 attempts for each item, with
\* every item either succeeded or in the failure list once
C9_BatchCompletes ==
    /\ (ui = "batch") ~> (ui = "batch" /\ b.pc = "done")
    /\ [](b.pc = "done" =>
            /\ Len(b.log) <= 3 * Len(b.parsed)
            /\ \A i \in 1..Len(b.parsed) :
                 IF Succeeded(i) THEN GivenUp(i) = {} ELSE Cardinality(GivenUp(i)) = 1
            /\ Cardinality({i \in 1..Len(b.parsed) : Succeeded(i)}) + Len(b.fail_list)
                 = Len(b.parsed)
            /\ w.batch_status = Status("Done. Failures:", Len(b.fail_list)))

C9_Witness ==
    /\ b.pc = "done"
    /\ Len(b.parsed) = 2
    /\ Succeeded(1)
    /\ Len(b.fail_list) = 1
    /\ Len(b.log) = 4

\* C10: the events of a call that returns after a transfer are start, at most one
\* restart, downloading events, and done with the final size twice; of a call that
\* skips, one skip event; and start comes before the file is opened
C10_EventOrder ==
    /\ ~d.cb => events = <<>>
    /\ (d.cb /\ Opens # {}) => (events # <<>> /\ events[1].phase = "start")
    /\ (d.cb /\ Returned /\ TransferRequests = {}) => Phases = <<"skipped">>
    /\ (d.cb /\ Returned /\ TransferRequests # {}) =>
        LET n == Len(events)
        IN  /\ n >= 2
            /\ events[1].phase = "start"
            /\ \A i \in 2..(n - 1) :
                 \/ events[i].phase = "downloading"
                 \/ i = 2 /\ events[i].phase = "restart"
            /\ events[n] = Event(Size(d.dest), Size(d.dest), d.filename, "done")

C10_Witness ==
    /\ Returned
    /\ Phases = <<"start", "restart", "downloading", "done">>

\* C11: a call of download() with a folder key that is not in the folder map raises
\* ValueError with no request sent, no event emitted, no file operation done, and the
\* files and directories as they were
C11_UnknownCategoryFailsFirst ==
    (d.pc # "idle" /\ d.folder_key \notin folders) =>
        /\ d.pc \in {"enter", "raised"}
        /\ d.pc = "raised" => d.result = Err("ValueError", "folder_key")
        /\ net = <<>>
        /\ events = <<>>
        /\ ops = <<>>
        /\ fs = d.fs0
        /\ dirs = folders

\* the call with an unknown key and a sink has raised
C11_Witness ==
    /\ d.pc = "raised"
    /\ d.folder_key = "embeddings"
    /\ d.cb
    /\ d.result.err = "ValueError"

\* the result of a helper called on its own
Evaluated(fn) == h.pc = "returned" /\ h.fn = fn

\* the path of a URL: what follows scheme://host, the query string left out
UrlPath(url) == SubSeq(SplitFirst(url, "?"), 5, Len(SplitFirst(url, "?")))
\* the last non-empty path segment of a URL (<<>> if the path has none)
LastSegment(url) == SplitLast(RStrip(UrlPath(url), {"/"}), "/")

\* the first non-empty candidate: override, Content-Disposition name, last path
\* segment, download.bin
FirstCandidate(override, cd, url) ==
    IF override # <<>> THEN override
    ELSE IF _filename_from_cd(cd) # <<>> THEN _filename_from_cd(cd)
    ELSE IF LastSegment(url) # <<>> THEN LastSegment(url)
    ELSE DOWNLOAD_BIN

\* C12: the filename download() settles on is the sanitized first non-empty candidate
\* among the override, the Content-Disposition base name, the last non-empty path
\* segment of the URL, and download.bin
C12_FilenamePriority ==
    Evaluated("ResolveFilename") =>
        h.out = _safe_filename(FirstCandidate(h.arg[1], h.arg[2], h.arg[3]))

\* what C12 says for the URLs that have a non-empty path segment
C12_PriorityWithPath ==
    (Evaluated("ResolveFilename") /\ LastSegment(h.arg[3]) # <<>>) =>
        h.out = _safe_filename(FirstCandidate(h.arg[1], h.arg[2], h.arg[3]))

\* C13: _safe_filename is idempotent, and its result is non-empty and has neither a
\* forward nor a backward slash
C13_SanitizeIdempotent ==
    Evaluated("_safe_filename") =>
        /\ _safe_filename(h.out) = h.out
        /\ h.out # <<>>
        /\ \A i \in 1..Len(h.out) : h.out[i] \notin {"/", "\\"}

\* a name of several segments in both kinds of slash, with white space around
C13_Witness ==
    /\ Evaluated("_safe_filename")
    /\ h.arg = <<" ", "/", "\\">>
    /\ h.out = <<"_", "_">>

\* a line is blank when it holds white space only, a comment when its first character
\* that is not white space is "#"
IsBlank(line) == \A i \in 1..Len(line) : line[i] \in WS
IsComment(line) == ~IsBlank(line) /\ line[SkipWs(line, 1)] = "#"
ItemLines(text) == SelectSeq(text, LAMBDA l : ~IsBlank(l) /\ ~IsComment(l))

\* the item a line stands for: <<key, remainder>> when the first word is a folder key
\* and something follows it, else <<"", the trimmed line>> ("": the default folder)
ItemOf(line) ==
    LET t == Strip(line, WS)
        k == FirstIn(t, WS)
    IN  IF k = 2 /\ t[1] \in folders
        THEN <<t[1], Strip(SubSeq(t, k, Len(t)), WS)>>
        ELSE <<"", t>>

\* C14: _parse_batch_lines yields one item for each line that is neither blank nor a
\* comment, in input order: the key and the remainder for a line that starts with a
\* folder key followed by something, the default and the trimmed line for any other
C14_BatchParsing ==
    Evaluated("_parse_batch_lines") =>
        /\ Len(h.out) = Len(ItemLines(h.arg))
        /\ \A k \in 1..Len(h.out) : h.out[k] = ItemOf(ItemLines(h.arg)[k])

\* an indented comment, a keyed line and a key alone
C14_Witness ==
    /\ Evaluated("_parse_batch_lines")
    /\ h.arg = <<L_INDENT, L_KEYED, L_KEY>>
    /\ h.out = << <<"loras", U_FP>>, <<"", <<"loras">> >> >>

\* the host of a URL: what stands between scheme:// and the path or the query
HostOf(url) == RunFrom(url, 4, {"/", "?"})
HostHas(url, pat) == \E i \in 1..Len(HostOf(url)) : HostOf(url)[i] = pat

\* C15: the Authorization header carries the civitai credential only for a host that
\* contains civitai.com, the Hugging Face credential only for a host that contains
\* huggingface.co or hf.co, each only when non-empty; a URL whose host has none of
\* the patterns gets no Authorization header, and neither does any URL when no
\* credential is configured
C15_CredentialScoping ==
    Evaluated("_headers_for_url") =>
        LET url == h.arg[1]
            e   == h.arg[2]
            civ == "civitai.com"
            hug == {"huggingface.co", "hf.co"}
        IN  /\ h.out.Authorization \in {"", e.CIVITAI_TOKEN, e.HF_TOKEN}
            /\ (h.out.Authorization # "" /\ h.out.Authorization = e.CIVITAI_TOKEN)
                  => HostHas(url, civ)
            /\ (h.out.Authorization # "" /\ h.out.Authorization = e.HF_TOKEN)
                  => \E p \in hug : HostHas(url, p)
            /\ (~HostHas(url, civ) /\ \A p \in hug : ~HostHas(url, p))
                  => h.out.Authorization = ""
            /\ (e.CIVITAI_TOKEN = "" /\ e.HF_TOKEN = "") => h.out.Authorization = ""

\* what C15 says with "the URL contains" in the place of "the host contains"
C15_ScopingByUrl ==
    Evaluated("_headers_for_url") =>
        LET url == h.arg[1]
            e   == h.arg[2]
            hug == Contains(url, "huggingface.co") \/ Contains(url, "hf.co")
        IN  /\ h.out.Authorization \in {"", e.CIVITAI_TOKEN, e.HF_TOKEN}
            /\ (h.out.Authorization # "" /\ h.out.Authorization = e.CIVITAI_TOKEN)
                  => Contains(url, "civitai.com")
            /\ (h.out.Authorization # "" /\ h.out.Authorization = e.HF_TOKEN) => hug
            /\ (~Contains(url, "civitai.com") /\ ~hug) => h.out.Authorization = ""
            /\ (e.CIVITAI_TOKEN = "" /\ e.HF_TOKEN = "") => h.out.Authorization = ""

\* both calls of the pair are over
TwinDone == h.pc = "second" /\ Finished

\* the environment did the same to both calls: the same fault at the same place (a
\* broken connection after the same number of body bytes), and one server answered
\* the transfer requests of both
SameEnvironment ==
    /\ TwinDone
    /\ h.out.fault = FaultAt(d.result)
    /\ h.out.fault = "stream" => h.out.consumed = Len(d.resp) - Len(d.body)
    /\ (h.out.status # 0) = (d.status # 0)
    /\ d.status # 0 =>
          \E sm \in ServerModes :
             /\ Respond(d.url, h.out.range, sm).status = h.out.status
             /\ Respond(d.url, d.range, sm).status = d.status

\* C16: a call of download() without a sink sends the same requests, does the same
\* file operations, leaves the same files and returns or raises the same as the call
\* with a sink, given the same arguments, the same files and the same environment
C16_SinkObservational ==
    SameEnvironment =>
        /\ net = h.out.net
        /\ ops = h.out.ops
        /\ fs = h.out.fs
        /\ d.result = h.out.result

\* a pair of resumed calls, the sink of the first having seen more than start and done
C16_Witness ==
    /\ SameEnvironment
    /\ Returned
    /\ d.status = 206
    /\ h.out.events >= 3
    /\ events = <<>>

\* the downloading events of the running call, and the bytes of the response consumed
Downloadings == {i \in 1..Len(events) : events[i].phase = "downloading"}
Consumed == SubSeq(d.resp, 1, Len(d.resp) - Len(d.body))
\* what the partial file held when it was opened
Base == IF d.mode = "ab" THEN d.part0 ELSE <<>>

\* C17: consecutive downloading events are at least THROTTLE_MS apart by the clock;
\* the partial file holds every chunk received, whether or not an event went out for
\* it; and a transfer that returns ends its events with done and the final size
C17_Throttling ==
    /\ Len(d.stamps) = Cardinality(Downloadings)
    /\ \A i \in 1..(Len(d.stamps) - 1) : d.stamps[i + 1] - d.stamps[i] >= 150
    /\ d.pc \in {"stream", "raised"} /\ Opens # {} => fs[d.tmp] = Base \o Consumed
    /\ (Returned /\ d.cb /\ TransferRequests # {}) =>
          /\ fs[d.dest] = Base \o d.resp
          /\ events[Len(events)] = Event(Len(fs[d.dest]), Len(fs[d.dest]), d.filename, "done")

\* two chunks came within the window: the event of the last one was suppressed, and
\* done reports what the last downloading event did not
C17_Witness ==
    /\ Returned /\ d.cb
    /\ Len(fs[d.dest]) = 2
    /\ Cardinality(Downloadings) = 1
    /\ \E i \in Downloadings : events[i].downloaded = 1
    /\ now = d.stamps[1]

\* two chunks came just a window apart: both events went out
C17_BothDue ==
    /\ Returned /\ d.cb
    /\ Len(d.stamps) = 2
    /\ d.stamps[2] - d.stamps[1] = 150

\* the status of the answer to the transfer request is not 2xx
Non2xx == d.status # 0 /\ ~(d.status >= 200 /\ d.status < 300)
\* what the partial file and the destination held before the call
PartBefore == IF d.tmp \in DOMAIN d.fs0 THEN d.fs0[d.tmp] ELSE <<>>

\* C18: after a transfer response whose status is not 2xx the call raises, no
\* downloading or done event is emitted, no destination file is created, and a
\* partial file holds the bytes it held before the call
C18_ErrorStatusKeepsPartial ==
    Non2xx =>
        /\ d.pc = "raised"
        /\ d.result.kind = "err"
        /\ Count("downloading") = 0 /\ Count("done") = 0
        /\ Exists(d.dest) => d.dest \in DOMAIN d.fs0
        /\ d.tmp \in DOMAIN d.fs0 => Exists(d.tmp) /\ fs[d.tmp] = d.fs0[d.tmp]

\* what C18 says for the statuses 4xx and 5xx, and for a failed probe
C18_ClientOrServerError ==
    /\ IsErrorStatus(d.status) =>
        /\ d.pc = "raised"
        /\ d.result = Err("HTTPError", "status")
        /\ Count("downloading") = 0 /\ Count("done") = 0
        /\ Opens = {}
        /\ Exists(d.dest) => d.dest \in DOMAIN d.fs0
        /\ d.tmp \in DOMAIN d.fs0 => Exists(d.tmp) /\ fs[d.tmp] = d.fs0[d.tmp]
    /\ (d.pc = "raised" /\ d.result.at = "probe") =>
        /\ events = <<>>
        /\ fs = d.fs0

\* C19: in the streaming loop the wrote counter is the length of the partial file;
\* every downloading event carries the length the partial file has when it is emitted;
\* and the counts of the downloading events of a call increase strictly
C19_CounterMatchesDisk ==
    /\ [](d.pc = "stream" => d.wrote = Len(fs[d.tmp]))
    /\ [](\A i, j \in Downloadings : i < j => events[i].downloaded < events[j].downloaded)
    /\ [][(/\ Len(events') = Len(events) + 1
           /\ events'[Len(events')].phase = "downloading")
            => events'[Len(events')].downloaded = Len(fs'[d.tmp])]_vars

\* a resumed and a restarted transfer, each after its last chunk, the sink having
\* been told
C19_Witness ==
    /\ d.pc = "stream" /\ d.cb
    /\ d.existing0 = 1
    /\ d.status \in {200, 206}
    /\ d.wrote = 2
    /\ events[Len(events)].phase = "downloading"
    /\ events[Len(events)].downloaded = 2

\* a retry of a batch item is over, having met no fault of its own and a server that
\* implements Range, after an attempt that failed past the probe in the same setting
\* download() raises ConnectionError and OSError past the probe only: when the
\* transfer request gets no response, the partial file cannot be opened, the stream
\* breaks or the rename fails
PastProbe == {"ConnectionError", "OSError"}
IsPrefix(p, r) == Len(p) <= Len(r) /\ p = SubSeq(r, 1, Len(p))
\* the transfer request, if answered, was answered as a server implementing Range does
HonouredRange ==
    d.status = 0 \/ d.status = Respond(d.url, d.range, "honour").status
\* the attempt that follows one that failed past the probe has finished: it found no
\* partial file or a prefix of the resource, met no fault and a server honouring Range
RetryAfterFault ==
    /\ ui = "batch" /\ b.pc = "wait" /\ b.attempt >= 2
    /\ b.last_err \in PastProbe
    /\ Finished
    /\ IsPrefix(d.part0, Resource(d.url))
    /\ FaultAt(d.result) = "none"
    /\ HonouredRange

\* C20: the attempt that follows a failed one, meeting no fault and a server that
\* honours Range, returns with the destination holding the resource and no partial
\* file left
C20_RetryConverges ==
    RetryAfterFault =>
        /\ Returned
        /\ Exists(d.dest) /\ fs[d.dest] = Resource(d.url)
        /\ ~Exists(d.tmp)

\* what C20 says when the failed attempt left less than the whole resource in the
\* partial file
C20_ConvergesFromIncomplete ==
    (RetryAfterFault /\ d.existing0 < Len(Resource(d.url))) =>
        /\ Returned
        /\ Exists(d.dest) /\ fs[d.dest] = Resource(d.url)
        /\ ~Exists(d.tmp)

\* a retry that resumed what a broken connection had left
C20_Resumed ==
    /\ RetryAfterFault /\ b.last_err = "ConnectionError" /\ d.existing0 = 1
    /\ Returned /\ d.status = 206

====
